---- MODULE Spec2Model ----
(***************************************************************************)
(* Model of the back-web API: the register/login handlers, the             *)
(* authenticate middleware (Access Gate) and the admin-gated mutation      *)
(* routes of src/routes/routes.js, over the Mongoose models of             *)
(* src/models.js.                                                          *)
(*                                                                         *)
(* Time is the JWT clock (whole seconds, NumericDate).  A value that is    *)
(* undefined, null or the empty string in JavaScript is modelled by ""     *)
(* for strings and by Undefined for objects; both are falsy.               *)
(***************************************************************************)
EXTENDS Integers, Sequences, FiniteSets, TLC

VARIABLES
    JWT_SECRET,   \* process.env.JWT_SECRET ("" when not configured)
    users,        \* the User collection, in insertion order
    products,     \* the Product collection
    merch,        \* the Merch collection
    now,          \* the clock, in seconds
    issued,       \* the tokens login has handed out (what clients hold)
    listening,    \* app.listen has been called
    req           \* the request being served

vars == <<JWT_SECRET, users, products, merch, now, issued, listening, req>>

(***************************************************************************)
(* Bounds of the model.                                                    *)
(***************************************************************************)
MaxItems    == 1    \* documents in the Product and Merch collections together
MaxTokens   == 1    \* tokens login hands out in one run

(***************************************************************************)
(* Program constants.                                                      *)
(***************************************************************************)
ExpiresIn  == 3600  \* expiresIn: '1h'
SaltRounds == 10    \* bcrypt.hash(password, 10)

Undefined == [k |-> "undefined"]

ProcessSecret  == "s3cr3t"       \* a configured JWT_SECRET
AttackerSecret == "not-s3cr3t"   \* any key a client can choose itself

\* The instants the clock is looked at: a token is handed out at 0 or at 1.
Instants  == {0, 1, ExpiresIn, ExpiresIn + 1}

Usernames == {"admin", "alice"}
Passwords == {"pw123", "hunter2"}
Emails    == {"admin@x.com", "a@x.com"}
Salts     == {"N9qo8uLOickgx2ZMRZoMye"}

(***************************************************************************)
(* bcryptjs: hash is salted and one-way, compare re-derives it.            *)
(***************************************************************************)
Hash(password, salt) ==
    [k |-> "bcrypt", rounds |-> SaltRounds, salt |-> salt, of |-> password]

Compare(password, hash) ==
    hash = Hash(password, hash.salt)

(***************************************************************************)
(* The collections as first populated: empty, or holding one administrator *)
(* created outside the API (no route sets isAdmin).                        *)
(***************************************************************************)
SeedAdmin ==
    [id |-> 1, username |-> "admin", password |-> Hash("hunter2", "abcdefghijklmnopqrstuu"),
     email |-> "admin@x.com", isAdmin |-> TRUE]

(***************************************************************************)
(* jsonwebtoken.  A token is its claim set and a signature over it; the    *)
(* signature is an ideal MAC: it names exactly the claims and key it was   *)
(* made from.                                                              *)
(***************************************************************************)
Mac(payload, key) == [k |-> "hs256", msg |-> payload, key |-> key]

NoSig == [k |-> "nosig"]

Jwt(payload, sig) == [k |-> "jwt", payload |-> payload, sig |-> sig]

Garbage == [k |-> "txt", v |-> "garbage"]
Bearer  == [k |-> "txt", v |-> "Bearer"]
SP      == [k |-> "sp"]

Claims(id, isAdmin, iat) ==
    [id |-> id, isAdmin |-> isAdmin, iat |-> iat, exp |-> iat + ExpiresIn]

\* jwt.sign(payload, secret, { expiresIn: '1h' }): throws on a falsy secret.
SignThrows(secret) == secret = ""

Sign(id, isAdmin, secret, t) ==
    Jwt(Claims(id, isAdmin, t), Mac(Claims(id, isAdmin, t), secret))

\* A verification that lets a token live one second too long.
VerifyThrowsLate(word, secret, t) ==
    \/ Len(word) # 1
    \/ word[1].k # "jwt"
    \/ secret = ""
    \/ word[1].sig # Mac(word[1].payload, secret)
    \/ t > word[1].payload.exp

\* A verification that checks whose signature it is, not what it signs.
VerifyThrowsKeyOnly(word, secret, t) ==
    \/ Len(word) # 1
    \/ word[1].k # "jwt"
    \/ secret = ""
    \/ word[1].sig.k # "hs256"
    \/ word[1].sig.key # secret
    \/ t >= word[1].payload.exp

\* A verification that leaves the signature unchecked (jwt.decode).
VerifyThrowsUnsigned(word, secret, t) ==
    \/ Len(word) # 1
    \/ word[1].k # "jwt"
    \/ secret = ""
    \/ t >= word[1].payload.exp

\* jwt.verify(token, secret): the token string must parse as a JWT, the
\* secret must be present, the signature must be the MAC of the claims under
\* the secret, and the clock must be before exp.
VerifyThrows(word, secret, t) ==
    \/ Len(word) # 1
    \/ word[1].k # "jwt"
    \/ secret = ""
    \/ word[1].sig # Mac(word[1].payload, secret)
    \/ t >= word[1].payload.exp

Verify(word) == word[1].payload

(***************************************************************************)
(* String.prototype.split(' ') over the Authorization header.  A header is *)
(* a sequence of atoms: the space, a word of plain text, or a token.       *)
(***************************************************************************)
RECURSIVE Split(_)
Split(h) ==
    IF h = <<>> THEN << <<>> >>
    ELSE LET rest == Split(Tail(h)) IN
         IF Head(h) = SP
         THEN << <<>> >> \o rest
         ELSE << <<Head(h)>> \o Head(rest) >> \o Tail(rest)

NoHeader == [present |-> FALSE, chars |-> <<>>]
Header(chars) == [present |-> TRUE, chars |-> chars]

\* The word before the first space, where the second is meant.
BearerTokenFirstWord(header) ==
    IF ~header.present THEN <<>> ELSE Split(header.chars)[1]

\* req.headers.authorization?.split(' ')[1]; <<>> stands for undefined and ''.
BearerToken(header) ==
    IF ~header.present THEN <<>>
    ELSE LET parts == Split(header.chars) IN
         IF Len(parts) < 2 THEN <<>> ELSE parts[2]

(***************************************************************************)
(* JSON values of a request body and JavaScript's view of them.            *)
(***************************************************************************)
Num(n) == [k |-> "num", n |-> n]
Str(chars) == [k |-> "str", chars |-> chars]
NaN == [k |-> "nan"]

Digits == [c \in {"0", "1", "2", "3", "4", "5", "6", "7", "8", "9"} |->
             CASE c = "0" -> 0 [] c = "1" -> 1 [] c = "2" -> 2 [] c = "3" -> 3
               [] c = "4" -> 4 [] c = "5" -> 5 [] c = "6" -> 6 [] c = "7" -> 7
               [] c = "8" -> 8 [] c = "9" -> 9]

\* !v is false: v is not undefined, 0 or ''.
Truthy(v) == v # Undefined /\ v # Num(0) /\ v # Str(<<>>)

\* The longest run of digits a string starts with, as a number.
RECURSIVE DigitPrefix(_, _)
DigitPrefix(chars, acc) ==
    IF chars = <<>> \/ Head(chars) \notin DOMAIN Digits THEN acc
    ELSE DigitPrefix(Tail(chars), 10 * acc + Digits[Head(chars)])

\* parseFloat(v): a number is itself, a string is its leading digits, and
\* anything that starts with no digit is NaN.
ParseFloat(v) ==
    IF v.k = "num" THEN v
    ELSE IF v.k = "str" /\ v.chars # <<>> /\ Head(v.chars) \in DOMAIN Digits
         THEN Num(DigitPrefix(v.chars, 0))
         ELSE NaN

PriceInputs == {Undefined, Num(0), Str(<<"1", "0">>), Str(<<"a">>)}

ItemBodies ==
    [name : {"", "a", "b"}, description : {"", "d"},
     price : PriceInputs, image : {"", "i"}]

\* A register body may carry fields the handler does not destructure, such
\* as isAdmin.
RegisterBodies ==
    [username : {"", "alice"}, password : {"", "pw123"},
     email : {""} \cup Emails, isAdmin : BOOLEAN]

LoginBodies ==
    [username : {""} \cup Usernames, password : {""} \cup Passwords]

(***************************************************************************)
(* Routes of the router and the requests on them.                          *)
(***************************************************************************)
ProductMutations == {"POST /products/add", "PUT /products/:id", "DELETE /products/:id"}
MerchMutations   == {"POST /merch/add", "PUT /merch/:id", "DELETE /merch/:id"}
MutationRoutes   == ProductMutations \cup MerchMutations
OpenRoutes       == {"POST /register", "POST /login", "GET /products",
                     "GET /news", "GET /merch"}
Routes           == MutationRoutes \cup OpenRoutes

\* The routes registered with the authenticate middleware before the handler.
Protected(route) == route \in MutationRoutes

\* req.params.id: 0 is an id that is no ObjectId; MaxItems + 1 is one no
\* document has.
ParamIds == 0..(MaxItems + 1)

\* What a client can put where a token goes: a token login gave it, one of
\* those with its claims rewritten under the old signature, a token it signed
\* or left unsigned itself, or text that is no token.
Tampered(t) ==
    { Jwt([t.payload EXCEPT !.isAdmin = ~@], t.sig),
      Jwt([t.payload EXCEPT !.id = IF @ = 1 THEN 2 ELSE 1], t.sig),
      Jwt([t.payload EXCEPT !.exp = @ + ExpiresIn], t.sig) }

Forged(t) ==
    { Jwt(Claims(1, TRUE, t), Mac(Claims(1, TRUE, t), AttackerSecret)),
      Jwt(Claims(1, TRUE, t), NoSig) }

Presentable ==
    issued \cup UNION {Tampered(t) : t \in issued} \cup Forged(now) \cup {Garbage}

Headers ==
    {NoHeader, Header(<<Bearer>>), Header(<<Bearer, SP>>)}
      \cup {Header(<<t>>) : t \in issued}
      \cup {Header(<<Bearer, SP, SP, t>>) : t \in issued}
      \cup {Header(<<Bearer, SP, t>>) : t \in Presentable}

(***************************************************************************)
(* Responses.                                                              *)
(***************************************************************************)
Json(key, value) == [key |-> key, value |-> value]

\* Express's default error handler, reached by next(error).
ServerError == [status |-> 500, body |-> Json("html", "Internal Server Error")]

Response(status, body) == [status |-> status, body |-> body]

IdleReq ==
    [pc |-> "idle", route |-> "", header |-> NoHeader, id |-> 0,
     body |-> Undefined, user |-> Undefined, nextCalled |-> FALSE,
     res |-> Undefined]

Reply(r, response) == [r EXCEPT !.pc = "done", !.res = response]

(***************************************************************************)
(* The state after construction: the environment is loaded, nothing is     *)
(* listening yet.                                                          *)
(***************************************************************************)
Init ==
    /\ JWT_SECRET \in {"", ProcessSecret}
    /\ users \in {<<>>, <<SeedAdmin>>}
    /\ products = {}
    /\ merch = {}
    /\ now = 0
    /\ issued = {}
    /\ listening = FALSE
    /\ req = IdleReq

\* dotenv.config(); ...; app.listen(PORT): nothing looks at JWT_SECRET.
Bootstrap ==
    /\ ~listening
    /\ listening' = TRUE
    /\ UNCHANGED <<JWT_SECRET, users, products, merch, now, issued, req>>

\* Time passes.
Tick ==
    /\ \E t \in Instants : t > now /\ now' = t
    /\ UNCHANGED <<JWT_SECRET, users, products, merch, issued, listening, req>>

\* A request arrives on a free connection and is routed.
Receive ==
    /\ listening
    /\ req.pc = "idle"
    /\ \E route \in Routes, header \in Headers :
         /\ Protected(route) \/ header = NoHeader
         /\ req' = [IdleReq EXCEPT !.pc = IF Protected(route) THEN "gate" ELSE "handler",
                                  !.route = route, !.header = header]
    /\ UNCHANGED <<JWT_SECRET, users, products, merch, now, issued, listening>>

\* The response is sent and the connection is free again.
Close ==
    /\ req.pc = "done"
    /\ req' = IdleReq
    /\ UNCHANGED <<JWT_SECRET, users, products, merch, now, issued, listening>>

\* A gate that answers an invalid token as it answers a missing one.
authenticate401(r, secret, t) ==
    LET token == BearerToken(r.header) IN
    IF token = <<>>
    THEN Reply(r, Response(401, Json("message", "Token no proporcionado")))
    ELSE IF VerifyThrows(token, secret, t)
    THEN Reply(r, Response(401, Json("message", "Token inválido")))
    ELSE [r EXCEPT !.user = Verify(token), !.nextCalled = TRUE, !.pc = "handler"]

(***************************************************************************)
(* The authenticate middleware.                                            *)
(***************************************************************************)
authenticate(r, secret, t) ==
    LET token == BearerToken(r.header) IN
    IF token = <<>>
    THEN Reply(r, Response(401, Json("message", "Token no proporcionado")))
    ELSE IF VerifyThrows(token, secret, t)
    THEN Reply(r, Response(403, Json("message", "Token inválido")))
    ELSE [r EXCEPT !.user = Verify(token), !.nextCalled = TRUE, !.pc = "handler"]

Authenticate ==
    /\ req.pc = "gate"
    /\ req' = authenticate(req, JWT_SECRET, now)
    /\ UNCHANGED <<JWT_SECRET, users, products, merch, now, issued, listening>>

(***************************************************************************)
(* The collections.                                                        *)
(***************************************************************************)
Ids(store) == {d.id : d \in store}

\* The id the database gives a new document: one no document has.
NewId(store) ==
    CHOOSE i \in 1..(Cardinality(store) + 1) :
        i \notin Ids(store) /\ \A j \in 1..(i - 1) : j \in Ids(store)

\* findById: the documents with that id (at most one), as a set.
FindById(store, id) == {d \in store : d.id = id}

Remove(store, id) == {d \in store : d.id # id}

Replace(store, doc) == {IF d.id = doc.id THEN doc ELSE d : d \in store}

\* User.findOne({ username }).
FindUser(username) == {users[i] : i \in {j \in 1..Len(users) : users[j].username = username}}

\* The unique indexes of userSchema.
Duplicate(username, email) ==
    \E i \in 1..Len(users) : users[i].username = username \/ users[i].email = email

ProductDoc(id, body, userId) ==
    [id |-> id, name |-> body.name, description |-> body.description,
     price |-> ParseFloat(body.price), image |-> body.image, userId |-> userId]

MerchDoc(id, body, userId) ==
    [id |-> id, name |-> body.name, description |-> body.description,
     price |-> ParseFloat(body.price), image |-> body.image, userId |-> userId]

\* updateData: only the fields of the body that are truthy.
Updated(doc, body) ==
    [doc EXCEPT !.name = IF body.name # "" THEN body.name ELSE @,
                !.description = IF body.description # "" THEN body.description ELSE @,
                !.price = IF Truthy(body.price) THEN ParseFloat(body.price) ELSE @,
                !.image = IF body.image # "" THEN body.image ELSE @]

(***************************************************************************)
(* The texts of the responses.                                             *)
(***************************************************************************)
DeniedText(route) ==
    CASE route = "POST /products/add" -> "Acceso denegado. Solo los administradores pueden añadir productos."
      [] route = "PUT /products/:id" -> "Acceso denegado. Solo los administradores pueden editar productos."
      [] route = "DELETE /products/:id" -> "Acceso denegado. Solo los administradores pueden eliminar productos."
      [] route = "POST /merch/add" -> "Acceso denegado. Solo los administradores pueden añadir artículos de merch."
      [] route = "PUT /merch/:id" -> "Acceso denegado. Solo los administradores pueden editar artículos de merch."
      [] route = "DELETE /merch/:id" -> "Acceso denegado. Solo los administradores pueden eliminar artículos de merch."

MissingText(route) ==
    CASE route = "POST /products/add" -> "Faltan datos para añadir el producto."
      [] route = "PUT /products/:id" -> "Debes proporcionar al menos un campo para editar el producto."
      [] route = "POST /merch/add" -> "Faltan datos para añadir el artículo de merch."
      [] route = "PUT /merch/:id" -> "Debes proporcionar al menos un campo para editar el artículo de merch."

NotFoundText(route) ==
    IF route \in ProductMutations THEN "Producto no encontrado"
    ELSE "Artículo de merch no encontrado"

PriceText == "El precio debe ser un número válido."

(***************************************************************************)
(* The handlers.  Each yields the request as answered and the collection   *)
(* as left.  The body and the id parameter are drawn where the handler     *)
(* reads them from req.body and req.params.                                *)
(***************************************************************************)
\* A check that asks only for an identity: !req.user
AdminDeniedAnonymousOnly(user) == user = Undefined

\* !req.user?.isAdmin
AdminDenied(user) == ~(user # Undefined /\ user.isAdmin)

Outcome(r, response, store) == [req |-> Reply(r, response), store |-> store]

\* router.post('/products/add') and router.post('/merch/add'); doc is the
\* document create() is called with.  The schema requires image.
addHandler(r, store, body, doc) ==
    IF AdminDenied(r.user)
    THEN Outcome(r, Response(403, Json("message", DeniedText(r.route))), store)
    ELSE LET rb == [r EXCEPT !.body = body] IN
         IF body.name = "" \/ body.description = "" \/ ~Truthy(body.price)
         THEN Outcome(rb, Response(400, Json("error", MissingText(r.route))), store)
         ELSE IF ParseFloat(body.price) = NaN
         THEN Outcome(rb, Response(400, Json("error", PriceText)), store)
         ELSE IF body.image = ""
         THEN Outcome(rb, ServerError, store)
         ELSE Outcome(rb, Response(201, Json("doc", doc)), store \cup {doc})

\* router.put('/products/:id') and router.put('/merch/:id').
putHandler(r, store, id, body) ==
    IF AdminDenied(r.user)
    THEN Outcome(r, Response(403, Json("message", DeniedText(r.route))), store)
    ELSE LET rb == [r EXCEPT !.id = id, !.body = body] IN
         IF body.name = "" /\ body.description = "" /\ ~Truthy(body.price) /\ body.image = ""
         THEN Outcome(rb, Response(400, Json("error", MissingText(r.route))), store)
         ELSE IF Truthy(body.price) /\ ParseFloat(body.price) = NaN
         THEN Outcome(rb, Response(400, Json("error", PriceText)), store)
         ELSE IF id = 0
         THEN Outcome(rb, ServerError, store)
         ELSE IF FindById(store, id) = {}
         THEN Outcome(rb, Response(404, Json("error", NotFoundText(r.route))), store)
         ELSE LET doc == Updated(CHOOSE d \in FindById(store, id) : TRUE, body) IN
              Outcome(rb, Response(200, Json("doc", doc)), Replace(store, doc))

\* A delete handler that goes to the collection without the admin check.
deleteHandlerUnchecked(r, store, id) ==
    LET ri == [r EXCEPT !.id = id] IN
    IF id = 0
    THEN Outcome(ri, ServerError, store)
    ELSE IF FindById(store, id) = {}
    THEN Outcome(ri, Response(404, Json("error", NotFoundText(r.route))), store)
    ELSE Outcome(ri, Response(200, Json("deleted", CHOOSE d \in FindById(store, id) : TRUE)),
                 Remove(store, id))

\* router.delete('/products/:id') and router.delete('/merch/:id').
deleteHandler(r, store, id) ==
    IF AdminDenied(r.user)
    THEN Outcome(r, Response(403, Json("message", DeniedText(r.route))), store)
    ELSE LET ri == [r EXCEPT !.id = id] IN
         IF id = 0
         THEN Outcome(ri, ServerError, store)
         ELSE IF FindById(store, id) = {}
         THEN Outcome(ri, Response(404, Json("error", NotFoundText(r.route))), store)
         ELSE Outcome(ri, Response(200, Json("deleted", CHOOSE d \in FindById(store, id) : TRUE)),
                      Remove(store, id))

\* A register that creates the user from the whole body: User.create(req.body)
registerHandlerMassAssigned(r, body, salt) ==
    LET rb == [r EXCEPT !.body = body] IN
    IF body.username = "" \/ body.password = "" \/ body.email = ""
    THEN Outcome(rb, Response(400, Json("error", "Faltan datos para registrar el usuario.")), users)
    ELSE IF Duplicate(body.username, body.email)
    THEN Outcome(rb, ServerError, users)
    ELSE LET user == [id |-> Len(users) + 1, username |-> body.username,
                      password |-> Hash(body.password, salt), email |-> body.email,
                      isAdmin |-> body.isAdmin] IN
         Outcome(rb, Response(201, Json("doc", user)), Append(users, user))

\* router.post('/register'): the created document is the response.  Only
\* username, password and email are taken from the body; isAdmin is left to
\* the schema's default, false.
registerHandler(r, body, salt) ==
    LET rb == [r EXCEPT !.body = body] IN
    IF body.username = "" \/ body.password = "" \/ body.email = ""
    THEN Outcome(rb, Response(400, Json("error", "Faltan datos para registrar el usuario.")), users)
    ELSE IF Duplicate(body.username, body.email)
    THEN Outcome(rb, ServerError, users)
    ELSE LET user == [id |-> Len(users) + 1, username |-> body.username,
                      password |-> Hash(body.password, salt), email |-> body.email,
                      isAdmin |-> FALSE] IN
         Outcome(rb, Response(201, Json("doc", user)), Append(users, user))

\* A login that tells an unknown username from a wrong password.
loginHandlerTelling(r, body, secret, t) ==
    LET rb == [r EXCEPT !.body = body]
        found == FindUser(body.username) IN
    IF body.username = "" \/ body.password = ""
    THEN Outcome(rb, Response(400, Json("error", "Debe proporcionar un nombre de usuario y una contraseña.")), {})
    ELSE IF found = {}
    THEN Outcome(rb, Response(404, Json("error", "Usuario no encontrado.")), {})
    ELSE IF \E user \in found : Compare(body.password, user.password)
    THEN LET user == CHOOSE u \in found : TRUE IN
         IF SignThrows(secret)
         THEN Outcome(rb, ServerError, {})
         ELSE Outcome(rb, Response(200, [key |-> "token",
                                         value |-> Sign(user.id, user.isAdmin, secret, t),
                                         isAdmin |-> user.isAdmin]),
                      {Sign(user.id, user.isAdmin, secret, t)})
    ELSE Outcome(rb, Response(401, Json("error", "Credenciales incorrectas.")), {})

\* router.post('/login'); store is the set of tokens handed out.
loginHandler(r, body, secret, t) ==
    LET rb == [r EXCEPT !.body = body]
        found == FindUser(body.username) IN
    IF body.username = "" \/ body.password = ""
    THEN Outcome(rb, Response(400, Json("error", "Debe proporcionar un nombre de usuario y una contraseña.")), {})
    ELSE IF \E user \in found : Compare(body.password, user.password)
    THEN LET user == CHOOSE u \in found : TRUE IN
         IF SignThrows(secret)
         THEN Outcome(rb, ServerError, {})
         ELSE Outcome(rb, Response(200, [key |-> "token",
                                         value |-> Sign(user.id, user.isAdmin, secret, t),
                                         isAdmin |-> user.isAdmin]),
                      {Sign(user.id, user.isAdmin, secret, t)})
    ELSE Outcome(rb, Response(401, Json("error", "Credenciales incorrectas.")), {})

\* Product.find().populate('userId'): each userId becomes the user document.
Populate(doc) ==
    [doc EXCEPT !.userId = IF \E i \in 1..Len(users) : users[i].id = @
                           THEN users[CHOOSE i \in 1..Len(users) : users[i].id = @]
                           ELSE Undefined]

getProducts(r) ==
    Reply(r, Response(200, Json("docs", {Populate(d) : d \in products})))

getMerch(r) == Reply(r, Response(200, Json("docs", merch)))

\* No route writes the News collection.
getNews(r) == Reply(r, Response(200, Json("docs", {})))

(***************************************************************************)
(* The handlers as steps of a request.                                     *)
(***************************************************************************)
At(route) == req.pc = "handler" /\ req.route = route

Fits(p, m) == Cardinality(p) + Cardinality(m) <= MaxItems

PostProductsAdd ==
    /\ At("POST /products/add")
    /\ \E body \in ItemBodies :
         LET out == addHandler(req, products, body,
                               ProductDoc(NewId(products), body, req.user.id)) IN
         /\ Fits(out.store, merch)
         /\ req' = out.req
         /\ products' = out.store
    /\ UNCHANGED <<JWT_SECRET, users, merch, now, issued, listening>>

PutProducts ==
    /\ At("PUT /products/:id")
    /\ \E id \in ParamIds, body \in ItemBodies :
         LET out == putHandler(req, products, id, body) IN
         /\ req' = out.req
         /\ products' = out.store
    /\ UNCHANGED <<JWT_SECRET, users, merch, now, issued, listening>>

DeleteProducts ==
    /\ At("DELETE /products/:id")
    /\ \E id \in ParamIds :
         LET out == deleteHandler(req, products, id) IN
         /\ req' = out.req
         /\ products' = out.store
    /\ UNCHANGED <<JWT_SECRET, users, merch, now, issued, listening>>

PostMerchAdd ==
    /\ At("POST /merch/add")
    /\ \E body \in ItemBodies :
         LET out == addHandler(req, merch, body,
                               MerchDoc(NewId(merch), body, req.user.id)) IN
         /\ Fits(products, out.store)
         /\ req' = out.req
         /\ merch' = out.store
    /\ UNCHANGED <<JWT_SECRET, users, products, now, issued, listening>>

PutMerch ==
    /\ At("PUT /merch/:id")
    /\ \E id \in ParamIds, body \in ItemBodies :
         LET out == putHandler(req, merch, id, body) IN
         /\ req' = out.req
         /\ merch' = out.store
    /\ UNCHANGED <<JWT_SECRET, users, products, now, issued, listening>>

DeleteMerch ==
    /\ At("DELETE /merch/:id")
    /\ \E id \in ParamIds :
         LET out == deleteHandler(req, merch, id) IN
         /\ req' = out.req
         /\ merch' = out.store
    /\ UNCHANGED <<JWT_SECRET, users, products, now, issued, listening>>

PostRegister ==
    /\ At("POST /register")
    /\ \E body \in RegisterBodies, salt \in Salts :
         LET out == registerHandler(req, body, salt) IN
         /\ req' = out.req
         /\ users' = out.store
    /\ UNCHANGED <<JWT_SECRET, products, merch, now, issued, listening>>

PostLogin ==
    /\ At("POST /login")
    /\ \E body \in LoginBodies :
         LET out == loginHandler(req, body, JWT_SECRET, now) IN
         /\ Cardinality(issued \cup out.store) <= MaxTokens
         /\ req' = out.req
         /\ issued' = issued \cup out.store
    /\ UNCHANGED <<JWT_SECRET, users, products, merch, now, listening>>

GetProducts ==
    /\ At("GET /products")
    /\ req' = getProducts(req)
    /\ UNCHANGED <<JWT_SECRET, users, products, merch, now, issued, listening>>

GetNews ==
    /\ At("GET /news")
    /\ req' = getNews(req)
    /\ UNCHANGED <<JWT_SECRET, users, products, merch, now, issued, listening>>

GetMerch ==
    /\ At("GET /merch")
    /\ req' = getMerch(req)
    /\ UNCHANGED <<JWT_SECRET, users, products, merch, now, issued, listening>>

Next ==
    \/ Bootstrap
    \/ Tick
    \/ Receive
    \/ Close
    \/ Authenticate
    \/ PostRegister
    \/ PostLogin
    \/ GetProducts
    \/ GetNews
    \/ GetMerch
    \/ PostProductsAdd
    \/ PutProducts
    \/ DeleteProducts
    \/ PostMerchAdd
    \/ PutMerch
    \/ DeleteMerch

Spec == Init /\ [][Next]_vars

(***************************************************************************)
(* What the properties below speak of, stated apart from the code: a       *)
(* header read by hand, a token judged by its claims, signature and clock. *)
(***************************************************************************)
Spaces(chars) == {i \in 1..Len(chars) : chars[i] = SP}

FirstSpace(chars) == CHOOSE i \in Spaces(chars) : \A j \in Spaces(chars) : i <= j

\* The header is absent, or nothing follows its first space.
NoTokenCarried(header) ==
    \/ ~header.present
    \/ Spaces(header.chars) = {}
    \/ FirstSpace(header.chars) = Len(header.chars)
    \/ header.chars[FirstSpace(header.chars) + 1] = SP

\* The atoms between the first space and the next one.
CarriedWord(header) ==
    IF NoTokenCarried(header) THEN <<>>
    ELSE LET c == header.chars
             f == FirstSpace(c)
             later == {i \in Spaces(c) : i > f}
             g == IF later = {} THEN Len(c) + 1
                  ELSE CHOOSE i \in later : \A j \in later : i <= j
         IN SubSeq(c, f + 1, g - 1)

Malformed(w) == Len(w) # 1 \/ w[1].k # "jwt"

BadSignature(w) ==
    ~Malformed(w) /\ (JWT_SECRET = "" \/ w[1].sig # Mac(w[1].payload, JWT_SECRET))

Expired(w, t) == ~Malformed(w) /\ t >= w[1].payload.exp

Genuine(w) == ~Malformed(w) /\ ~BadSignature(w)

GateStep == req.pc = "gate" /\ req' # req

HandlerStep == req.pc = "handler" /\ req' # req

StoresUnchanged == products' = products /\ merch' = merch

Answered(r, status, key, text) ==
    r.pc = "done" /\ r.res = [status |-> status, body |-> [key |-> key, value |-> text]]

Rejected(status, text) ==
    /\ req' = [req EXCEPT !.pc = "done",
                          !.res = [status |-> status,
                                   body |-> [key |-> "message", value |-> text]]]
    /\ StoresUnchanged

C2_MissingTokenIs401 ==
    [][ /\ (GateStep /\ NoTokenCarried(req.header)) =>
              Rejected(401, "Token no proporcionado")
        /\ (req'.route \in MutationRoutes /\ NoTokenCarried(req'.header)) =>
              /\ req'.pc \in {"gate", "done"}
              /\ req'.user = Undefined
              /\ ~req'.nextCalled
              /\ req'.body = Undefined
      ]_vars

\* A header of the scheme word and a space, and nothing after, was answered.
C2_Witness ==
    /\ req.pc = "done" /\ req.route = "PUT /products/:id"
    /\ req.header = Header(<<Bearer, SP>>)
    /\ req.res.status = 401 /\ ~req.nextCalled

(***************************************************************************)
(* C3.  A token that is malformed, whose signature does not match the      *)
(* process secret, or that is expired is answered by the gate with the     *)
(* same 403 response; next is not called and the handler is not entered.   *)
(***************************************************************************)
C3_InvalidTokenIs403 ==
    [][ (/\ GateStep
         /\ ~NoTokenCarried(req.header)
         /\ \/ Malformed(CarriedWord(req.header))
            \/ BadSignature(CarriedWord(req.header))
            \/ Expired(CarriedWord(req.header), now)) =>
           Rejected(403, "Token inválido")
      ]_vars

\* A token login handed out, presented after its expiry, was turned away.
C3_Witness ==
    /\ req.pc = "done" /\ req.route \in MutationRoutes
    /\ ~NoTokenCarried(req.header)
    /\ CarriedWord(req.header)[1] \in issued
    /\ Answered(req, 403, "message", "Token inválido")
    /\ ~req.nextCalled

(***************************************************************************)
(* C4.  A valid, unexpired token with isAdmin false passes the gate (its   *)
(* claims are attached, next is called, the gate sends nothing), and the   *)
(* handler of each of the six mutation routes then answers 403 and leaves  *)
(* both collections unchanged.                                             *)
(***************************************************************************)
C4_NonAdminPassesGateThenDenied ==
    [][ /\ (/\ GateStep
            /\ Genuine(CarriedWord(req.header))
            /\ ~Expired(CarriedWord(req.header), now)
            /\ ~CarriedWord(req.header)[1].payload.isAdmin) =>
              /\ req' = [req EXCEPT !.pc = "handler", !.nextCalled = TRUE,
                                    !.user = CarriedWord(req.header)[1].payload]
              /\ req'.res = Undefined
        /\ (/\ HandlerStep
            /\ req.route \in MutationRoutes
            /\ req.user # Undefined
            /\ ~req.user.isAdmin) =>
              /\ req'.pc = "done"
              /\ req'.res.status = 403
              /\ req'.res.body = [key |-> "message", value |-> DeniedText(req.route)]
              /\ StoresUnchanged
      ]_vars

\* A registered user's token went through the gate and was denied a delete.
C4_Witness ==
    /\ req.pc = "done" /\ req.route = "DELETE /merch/:id"
    /\ req.nextCalled /\ req.user # Undefined /\ ~req.user.isAdmin
    /\ req.res.status = 403

(***************************************************************************)
(* C5 as stated.  The gate's codes tell the causes apart: a 403 from a     *)
(* protected route goes only to a request whose token verified.            *)
(***************************************************************************)
C5_403OnlyAfterVerification ==
    (req.pc = "done" /\ req.route \in MutationRoutes /\ req.res.status = 403) =>
        /\ Genuine(CarriedWord(req.header))
        /\ req.user = CarriedWord(req.header)[1].payload

(***************************************************************************)
(* C5 as amended.  On a protected route the gate answers 401 exactly when  *)
(* no token is carried and 403 exactly when the token carried is invalid   *)
(* (malformed, wrongly signed or expired); a handler's 403 goes only to a  *)
(* request whose token verified and whose claims have isAdmin false.  So a *)
(* 401 means no token, and a 403 means a token that is invalid or lacks    *)
(* the privilege.                                                          *)
(***************************************************************************)
C5_GateCodesByCause ==
    [][ /\ GateStep =>
              /\ req'.pc = "done" =>
                    /\ req'.res.status \in {401, 403}
                    /\ req'.res.status = 401 <=> NoTokenCarried(req.header)
                    /\ req'.res.status = 403 <=>
                          /\ ~NoTokenCarried(req.header)
                          /\ \/ ~Genuine(CarriedWord(req.header))
                             \/ Expired(CarriedWord(req.header), now)
              /\ req'.pc # "done" =>
                    /\ Genuine(CarriedWord(req.header))
                    /\ ~Expired(CarriedWord(req.header), now)
        /\ (HandlerStep /\ req.route \in MutationRoutes) =>
              /\ req'.res.status # 401
              /\ req'.res.status = 403 <=>
                    /\ req.user = CarriedWord(req.header)[1].payload
                    /\ ~req.user.isAdmin
      ]_vars

\* A token that never verified was answered 403.
C5_Witness ==
    /\ req.pc = "done" /\ req.route \in MutationRoutes
    /\ CarriedWord(req.header) = <<Garbage>>
    /\ req.res.status = 403 /\ req.user = Undefined

(***************************************************************************)
(* C6.  A token login hands out at time t carries iat = t and exp = t + 1  *)
(* hour; whenever it is presented, whatever was served in between, the     *)
(* gate lets it through if the clock is before t + 1 hour and answers 403  *)
(* if the clock is at or past t + 1 hour.                                  *)
(***************************************************************************)
C6_ValidForOneHour ==
    [][ /\ \A w \in issued' \ issued :
              /\ w.payload.iat = now
              /\ w.payload.exp = now + ExpiresIn
        /\ (/\ GateStep
            /\ ~NoTokenCarried(req.header)
            /\ Len(CarriedWord(req.header)) = 1
            /\ CarriedWord(req.header)[1] \in issued) =>
              LET w == CarriedWord(req.header)[1] IN
              IF now < w.payload.iat + ExpiresIn
              THEN /\ req'.pc = "handler" /\ req'.nextCalled
                   /\ req'.user = w.payload
              ELSE /\ Answered(req', 403, "message", "Token inválido")
                   /\ req'.user = Undefined
      ]_vars

\* A token handed out at second 1 was let through at second 3600, the last
\* of its hour, after other requests had been served.
C6_Witness ==
    /\ req.pc = "handler" /\ req.nextCalled
    /\ req.user # Undefined /\ req.user.iat = 1
    /\ now = ExpiresIn
    /\ users # <<>> /\ Len(users) = 2

(***************************************************************************)
(* C7.  The claims attached to a request are claims login handed out: a    *)
(* token whose claims were rewritten, or that was signed with another key  *)
(* or not at all, does not pass the gate.                                  *)
(***************************************************************************)
C7_AttachedClaimsWereIssued ==
    /\ req.user # Undefined =>
          /\ req.user \in {w.payload : w \in issued}
          /\ CarriedWord(req.header)[1] \in issued
    /\ (req.route \in MutationRoutes /\ req.pc = "handler") => req.user # Undefined

\* A token with the admin flag flipped to true under the old signature was
\* presented and turned away.
C7_Witness ==
    /\ req.pc = "done" /\ req.route \in MutationRoutes
    /\ ~NoTokenCarried(req.header)
    /\ ~Malformed(CarriedWord(req.header))
    /\ CarriedWord(req.header)[1].payload.isAdmin
    /\ CarriedWord(req.header)[1].sig = Mac([CarriedWord(req.header)[1].payload EXCEPT !.isAdmin = FALSE], JWT_SECRET)
    /\ req.res.status = 403 /\ req.user = Undefined

(***************************************************************************)
(* C8.  No response body of any endpoint contains the stored password hash *)
(* of an identity.                                                         *)
(***************************************************************************)
StoredHashes == {users[i].password : i \in 1..Len(users)}

\* The password fields a response body shows: of the document it is, or of
\* the user documents its documents embed.
HashesShown(body) ==
    IF body.key \in {"doc", "deleted"}
    THEN IF "password" \in DOMAIN body.value THEN {body.value.password} ELSE {}
    ELSE IF body.key = "docs"
    THEN {d.userId.password : d \in {e \in body.value : e.userId \in {users[i] : i \in 1..Len(users)}}}
    ELSE {}

C8_PasswordHashNeverExposed ==
    req.res # Undefined => HashesShown(req.res.body) \cap StoredHashes = {}

(***************************************************************************)
(* C9.  A process whose signing secret is not configured refuses to serve: *)
(* it answers no request, hands out no token and lets none through the     *)
(* gate.                                                                   *)
(***************************************************************************)
C9_NoSecretNoService ==
    JWT_SECRET = "" =>
        /\ req.res = Undefined
        /\ issued = {}
        /\ req.user = Undefined

(***************************************************************************)
(* C10.  A login with an unknown username and a login with a known         *)
(* username and a wrong password get one and the same response, 401 with   *)
(* the generic text, and hand out no token.                                *)
(***************************************************************************)
UnknownUsername(body) ==
    \A i \in 1..Len(users) : users[i].username # body.username

WrongPassword(body) ==
    \E i \in 1..Len(users) :
        users[i].username = body.username /\ users[i].password.of # body.password

Registered(body) ==
    {users[i] : i \in {j \in 1..Len(users) :
                          /\ users[j].username = body.username
                          /\ users[j].password.of = body.password}}

LoginAfterRegister ==
        /\ (/\ HandlerStep
            /\ req.route = "POST /login"
            /\ req'.body.password # ""
            /\ Registered(req'.body) # {}) =>
              \E user \in Registered(req'.body) :
                 /\ req'.pc = "done"
                 /\ req'.res.status = 200
                 /\ req'.res.body.key = "token"
                 /\ ~Malformed(<<req'.res.body.value>>)
                 /\ req'.res.body.value.payload =
                       [id |-> user.id, isAdmin |-> user.isAdmin,
                        iat |-> now, exp |-> now + ExpiresIn]
                 /\ req'.res.body.isAdmin = user.isAdmin
                 /\ req'.res.body.value \in issued'
        /\ (HandlerStep /\ req.route = "POST /register" /\ req'.res.status = 201) =>
              /\ Len(users') = Len(users) + 1
              /\ users'[Len(users')].username = req'.body.username
              /\ users'[Len(users')].password.of = req'.body.password
              /\ users'[Len(users')].isAdmin = FALSE

C11_LoginAfterRegisterSucceeds == [][LoginAfterRegister]_vars

\* The same with the signing secret configured, where it holds.
C11_WithSecretConfigured ==
    [][JWT_SECRET # "" => LoginAfterRegister]_vars

(***************************************************************************)
(* C12.  An admin's create request on POST /products/add or POST           *)
(* /merch/add whose name, description and numeric price pass the handler's *)
(* validation answers 201 with the created record and adds exactly one     *)
(* record, owned by the subject of the verified claims; a request failing  *)
(* that validation answers 400 and adds no record.                         *)
(***************************************************************************)
AddRoutes == {"POST /products/add", "POST /merch/add"}

Validated(body) ==
    /\ body.name # ""
    /\ body.description # ""
    /\ Truthy(body.price)
    /\ ParseFloat(body.price) # NaN

AdminCreate == HandlerStep /\ req.route \in AddRoutes /\ ~AdminDenied(req.user)

Created(before, after) ==
    \E d \in after \ before :
       /\ after = before \cup {d}
       /\ d.userId = req.user.id
       /\ req'.res.body = Json("doc", d)

CreateAnswers ==
    AdminCreate =>
       IF Validated(req'.body)
       THEN /\ req'.res.status = 201
            /\ IF req.route = "POST /products/add"
               THEN Created(products, products') /\ merch' = merch
               ELSE Created(merch, merch') /\ products' = products
       ELSE req'.res.status = 400 /\ StoresUnchanged

C12_AdminCreateAnswers201Or400 == [][CreateAnswers]_vars

\* The same for the requests that carry an image, where it holds.
C12_WithImage == [][(AdminCreate /\ req'.body.image # "") => CreateAnswers]_vars

(***************************************************************************)
(* C13.  An admin's update on PUT /products/:id or PUT /merch/:id changes  *)
(* only the fields present in the body and leaves every other field of the *)
(* record and every other record unchanged; a body with no updatable field *)
(* is answered 400 with the stores unchanged; an update or a delete of an  *)
(* id that is not in the collection is answered 404 with the stores        *)
(* unchanged.                                                              *)
(***************************************************************************)
PutRoutes == {"PUT /products/:id", "PUT /merch/:id"}

DeleteRoutes == {"DELETE /products/:id", "DELETE /merch/:id"}

Updatable == {"name", "description", "price", "image"}

Present(body, f) == IF f = "price" THEN body.price # Undefined ELSE body[f] # ""

NoFieldPresent(body) == \A f \in Updatable : ~Present(body, f)

\* The body passes the update handler's own validation.
Updating(body) ==
    /\ \E f \in Updatable : IF f = "price" THEN Truthy(body.price) ELSE body[f] # ""
    /\ Truthy(body.price) => ParseFloat(body.price) # NaN

Collection(route, p, m) == IF route \in ProductMutations THEN p ELSE m

OnlyPresentFieldsChange(before, after, id, body) ==
    /\ Ids(after) = Ids(before)
    /\ \A d \in before :
          IF d.id # id THEN d \in after
          ELSE \E e \in after :
                  /\ e.id = d.id
                  /\ e.userId = d.userId
                  /\ \A f \in Updatable : e[f] # d[f] => Present(body, f)

AdminUpdate == HandlerStep /\ req.route \in PutRoutes /\ ~AdminDenied(req.user)

AdminDelete == HandlerStep /\ req.route \in DeleteRoutes /\ ~AdminDenied(req.user)

Absent(route, id) == id \notin Ids(Collection(route, products, merch))

UpdateAnswers ==
    /\ AdminUpdate =>
          /\ OnlyPresentFieldsChange(Collection(req.route, products, merch),
                                     Collection(req.route, products', merch'),
                                     req'.id, req'.body)
          /\ Collection(req.route, merch, products) =
                Collection(req.route, merch', products')
          /\ NoFieldPresent(req'.body) => req'.res.status = 400 /\ StoresUnchanged
          /\ (Updating(req'.body) /\ Absent(req.route, req'.id)) =>
                req'.res.status = 404 /\ StoresUnchanged
    /\ (AdminDelete /\ Absent(req.route, req'.id)) =>
          req'.res.status = 404 /\ StoresUnchanged

C13_UpdateFrameAnd404 == [][UpdateAnswers]_vars

\* The same for ids that have the form of an id, where it holds.
C13_WellFormedIds ==
    [][((AdminUpdate \/ AdminDelete) /\ req'.id # 0) => UpdateAnswers]_vars

(***************************************************************************)
(* C14.  No privilege escalation through the API: register stores every    *)
(* new identity with isAdmin false whatever the body carries, no step      *)
(* changes the isAdmin flag of a stored identity, and while no identity is *)
(* admin no token with isAdmin true is issued and the product and merch    *)
(* stores do not change.                                                   *)
(***************************************************************************)
NoAdmin(us) == \A i \in 1..Len(us) : ~us[i].isAdmin

NoEscalation ==
    /\ Len(users') >= Len(users)
    /\ \A i \in 1..Len(users) :
          users'[i].id = users[i].id /\ users'[i].isAdmin = users[i].isAdmin
    /\ \A i \in (Len(users) + 1)..Len(users') : users'[i].isAdmin = FALSE
    /\ NoAdmin(users) =>
          /\ \A t \in issued' : t.payload.isAdmin = FALSE
          /\ req'.user # Undefined => req'.user.isAdmin = FALSE
          /\ StoresUnchanged

C14_NoPrivilegeEscalation == [][NoEscalation]_vars

\* A register whose body asks for isAdmin has stored a plain identity.
C14_Witness ==
    /\ req.pc = "done"
    /\ req.route = "POST /register"
    /\ req.body # Undefined
    /\ req.body.isAdmin
    /\ req.res.status = 201
    /\ Len(users) = 1
    /\ users[1].username = req.body.username
    /\ users[1].isAdmin = FALSE
    /\ products = {} /\ merch = {}

====
